---- MODULE Spec2Model ----
(***************************************************************************)
(* Model of NASADataProcessor (src/data_processor.py) and of the request   *)
(* handlers that use it (src/app.py).                                      *)
(*                                                                         *)
(* Representation.                                                         *)
(*  - A datetime is a record [year, month, day].  A date STRING such as    *)
(*    "2023-07-19" is the tuple <<2023, 7, 19>> of its three numeric       *)
(*    fields; strptime turns a string into a datetime or raises.           *)
(*  - A DataFrame series is a sequence of rows [date, value].              *)
(*    Temperature is in whole degrees F, wind in whole mph, humidity in    *)
(*    whole percent, precipitation in tenths of an inch.                   *)
(*  - A percentage is kept in tenths: [nan |-> FALSE, tenths |-> 1000] is  *)
(*    100.0, and [nan |-> TRUE, tenths |-> 0] is the float not-a-number.   *)
(*  - A Python dict is a function; its keys are its DOMAIN.                *)
(***************************************************************************)
EXTENDS Integers, Sequences, FiniteSets, TLC

VARIABLES
    dir_exists,          \* os.path.exists(self.data_directory)
    files,               \* names of the files in the data directory
    seed,                \* state of numpy's generator when the series are drawn
    pandas_empty_apply,  \* what the installed pandas does for apply/setitem on an empty merge
    historical_data,     \* self.historical_data: variable name -> series
    data_loaded,         \* self.data_loaded
    phase,               \* "init" while the constructor runs, "serving" afterwards
    reqs,                \* request handlers in flight: slot -> handler frame
    responses,           \* what the handlers have returned so far
    ret                  \* the last return value of a direct call on the processor

vars == <<dir_exists, files, seed, pandas_empty_apply, historical_data,
          data_loaded, phase, reqs, responses, ret>>

----------------------------------------------------------------------------
(* Bounds of the model *)

\* longest series drawn for a Store that is handed to the estimator directly
MaxLen == 2

----------------------------------------------------------------------------
(* Calendar: datetime.strptime(..., '%Y-%m-%d') and timetuple().tm_yday *)

IsLeap(y) == (y % 4 = 0 /\ y % 100 # 0) \/ y % 400 = 0

DaysInMonth(y, m) ==
    IF m = 2 THEN (IF IsLeap(y) THEN 29 ELSE 28)
    ELSE IF m \in {4, 6, 9, 11} THEN 30 ELSE 31

\* does strptime accept the string?  (ValueError otherwise)
StrptimeOk(s) ==
    /\ s[1] \in 1..9999
    /\ s[2] \in 1..12
    /\ s[3] \in 1..DaysInMonth(s[1], s[2])

strptime(s) == [year |-> s[1], month |-> s[2], day |-> s[3]]

\* days of the year before the first day of month m
DaysBeforeMonth(y, m) ==
    <<0, 31, 59, 90, 120, 151, 181, 212, 243, 273, 304, 334>>[m]
        + (IF m > 2 /\ IsLeap(y) THEN 1 ELSE 0)

\* timetuple().tm_yday and Series.dt.dayofyear
tm_yday(dt) == DaysBeforeMonth(dt.year, dt.month) + dt.day

----------------------------------------------------------------------------
(* Program constants of calculate_probabilities *)

WindowHalfWidth == 7
HotThreshold == 90
ColdThreshold == 32
WetThresholdTenths == 5
WindyThreshold == 15
HeatIndexThreshold == 85

expected_keys == {"hot", "cold", "wet", "windy", "uncomfortable"}

Num(t) == [nan |-> FALSE, tenths |-> t]
NaN == [nan |-> TRUE, tenths |-> 0]

\* round(100 * k / n, 1) in tenths: round half to even
RoundPct(k, n) ==
    LET num == 1000 * k
        q == num \div n
        r == num % n
    IN  IF 2 * r < n THEN q
        ELSE IF 2 * r > n THEN q + 1
        ELSE IF q % 2 = 0 THEN q ELSE q + 1

\* a window that wraps around the end of the year
SamePeriod_Wrap(series, day_of_year) ==
    SelectSeq(series, LAMBDA row:
        LET gap == IF tm_yday(row.date) >= day_of_year
                   THEN tm_yday(row.date) - day_of_year
                   ELSE day_of_year - tm_yday(row.date)
        IN  gap <= WindowHalfWidth \/ 365 - gap <= WindowHalfWidth)

\* df[(df['date'].dt.dayofyear >= d - 7) & (df['date'].dt.dayofyear <= d + 7)]
SamePeriod(series, day_of_year) ==
    SelectSeq(series, LAMBDA row:
        /\ tm_yday(row.date) >= day_of_year - WindowHalfWidth
        /\ tm_yday(row.date) <= day_of_year + WindowHalfWidth)

\* number of rows of a series that satisfy a test
CountRows(series, Test(_)) == Len(SelectSeq(series, Test))

\* (series[col] <test>).mean() * 100, rounded to one decimal
MeanPct(series, Test(_)) == Num(RoundPct(CountRows(series, Test), Len(series)))

----------------------------------------------------------------------------
(* calculate_probabilities, stage by stage.  Each stage reads               *)
(* self.historical_data and returns the handler's local dict.               *)

\* probabilities[key] = value
Put(d, key, value) ==
    [k \in (DOMAIN d) \cup {key} |-> IF k = key THEN value ELSE d[k]]

\* probs.get(key, default)
Get(d, key, default) == IF key \in DOMAIN d THEN d[key] ELSE default

IsHot(row) == row.value > HotThreshold
IsCold(row) == row.value < ColdThreshold
IsWet(row) == row.value > WetThresholdTenths
IsWindy(row) == row.value > WindyThreshold

\* lines 272-286
TemperatureStage(day_of_year, probabilities) ==
    IF "temperature" \in DOMAIN historical_data
    THEN LET same_period_data == SamePeriod(historical_data["temperature"], day_of_year)
         IN  IF Len(same_period_data) > 0
             THEN Put(Put(probabilities, "hot", MeanPct(same_period_data, IsHot)),
                      "cold", MeanPct(same_period_data, IsCold))
             ELSE probabilities
    ELSE probabilities

\* lines 289-299
PrecipitationStage(day_of_year, probabilities) ==
    IF "precipitation" \in DOMAIN historical_data
    THEN LET same_period_precip == SamePeriod(historical_data["precipitation"], day_of_year)
         IN  IF Len(same_period_precip) > 0
             THEN Put(probabilities, "wet", MeanPct(same_period_precip, IsWet))
             ELSE probabilities
    ELSE probabilities

\* lines 302-312
WindStage(day_of_year, probabilities) ==
    IF "wind" \in DOMAIN historical_data
    THEN LET same_period_wind == SamePeriod(historical_data["wind"], day_of_year)
         IN  IF Len(same_period_wind) > 0
             THEN Put(probabilities, "windy", MeanPct(same_period_wind, IsWindy))
             ELSE probabilities
    ELSE probabilities

\* pd.merge(left, right, on='date'): inner join, one row per matching pair
RECURSIVE Merge(_, _)
Merge(left, right) ==
    IF left = <<>> THEN <<>>
    ELSE LET l == Head(left)
             matches == SelectSeq(right, LAMBDA r: r.date = l.date)
         IN  [i \in 1..Len(matches) |->
                 [date |-> l.date, temperature |-> l.value, humidity |-> matches[i].value]]
             \o Merge(Tail(left), right)

\* calculate_heat_index(temp, humidity) > 85, that is
\* temp + 0.05 * (humidity - 50) > 85, both sides multiplied by 20
IsUncomfortable(row) ==
    20 * row.temperature + (row.humidity - 50) > 20 * HeatIndexThreshold

\* lines 315-349.  The result is [raised, probabilities]: on a merge with no
\* row, DataFrame.apply(axis=1) returns either a copy of the empty frame, whose
\* assignment to one column raises ValueError, or an empty Series, whose
\* mean() is not-a-number; which one depends on the pandas release.
ComfortStage(day_of_year, probabilities) ==
    IF "temperature" \in DOMAIN historical_data /\ "humidity" \in DOMAIN historical_data
    THEN LET same_period_temp == SamePeriod(historical_data["temperature"], day_of_year)
             same_period_humidity == SamePeriod(historical_data["humidity"], day_of_year)
         IN  IF Len(same_period_temp) > 0 /\ Len(same_period_humidity) > 0
             THEN LET merged_data == Merge(same_period_temp, same_period_humidity)
                  IN  IF Len(merged_data) = 0
                      THEN IF pandas_empty_apply = "raises"
                           THEN [raised |-> TRUE, probabilities |-> probabilities]
                           ELSE [raised |-> FALSE,
                                 probabilities |-> Put(probabilities, "uncomfortable", NaN)]
                      ELSE [raised |-> FALSE,
                            probabilities |-> Put(probabilities, "uncomfortable",
                                                  MeanPct(merged_data, IsUncomfortable))]
             ELSE [raised |-> FALSE, probabilities |-> probabilities]
    ELSE [raised |-> FALSE, probabilities |-> probabilities]

\* missing keys filled with a null instead of 0.0
EnsureKeys_Null(probabilities) ==
    [k \in expected_keys |-> Get(probabilities, k, NaN)]

\* lines 351-355
EnsureKeys(probabilities) ==
    [k \in expected_keys |-> Get(probabilities, k, Num(0))]

\* an error default that forgets the derived key
DefaultProbabilities_Partial == [k \in expected_keys \ {"uncomfortable"} |-> Num(0)]

\* lines 362-368
DefaultProbabilities == [k \in expected_keys |-> Num(0)]

EmptyDict == [k \in {} |-> Num(0)]

\* an estimate that shifts the season by half a year south of the equator
calculate_probabilities_ByHemisphere(lat, lng, target_date) ==
    IF ~StrptimeOk(target_date) THEN DefaultProbabilities
    ELSE LET day_of_year == IF lat < 0
                            THEN ((tm_yday(strptime(target_date)) + 181) % 365) + 1
                            ELSE tm_yday(strptime(target_date))
             p1 == TemperatureStage(day_of_year, EmptyDict)
             p2 == PrecipitationStage(day_of_year, p1)
             p3 == WindStage(day_of_year, p2)
             c == ComfortStage(day_of_year, p3)
         IN  IF c.raised THEN DefaultProbabilities
             ELSE EnsureKeys(c.probabilities)

\* lines 263-368: the whole call; lat and lng are not read
calculate_probabilities(lat, lng, target_date) ==
    IF ~StrptimeOk(target_date) THEN DefaultProbabilities
    ELSE LET day_of_year == tm_yday(strptime(target_date))
             p1 == TemperatureStage(day_of_year, EmptyDict)
             p2 == PrecipitationStage(day_of_year, p1)
             p3 == WindStage(day_of_year, p2)
             c == ComfortStage(day_of_year, p3)
         IN  IF c.raised THEN DefaultProbabilities
             ELSE EnsureKeys(c.probabilities)

----------------------------------------------------------------------------
(* get_historical_trends *)

TrendFirstYear == 2015
TrendEndYear == 2025

\* range(2015, 2024): the last year dropped
TrendYears_Short == [i \in 1..(TrendEndYear - TrendFirstYear - 1) |-> TrendFirstYear + i - 1]

\* list(range(2015, 2025))
TrendYears == [i \in 1..(TrendEndYear - TrendFirstYear) |-> TrendFirstYear + i - 1]

\* f"{year}-07-15"
SampleDate(year) == <<year, 7, 15>>

\* lines 370-390.  The except branch (lines 392-400) is not modelled: nothing
\* in the try block can raise, calculate_probabilities catching everything.
get_historical_trends(lat, lng) ==
    LET years == TrendYears
        probs == [i \in 1..Len(years) |->
                     calculate_probabilities(lat, lng, SampleDate(years[i]))]
    IN  [years |-> years,
         hot_probabilities |-> [i \in 1..Len(years) |-> Get(probs[i], "hot", Num(0))],
         wet_probabilities |-> [i \in 1..Len(years) |-> Get(probs[i], "wet", Num(0))]]

----------------------------------------------------------------------------
(* generate_csv_data.  A DataFrame is [columns, rows]; a row maps each       *)
(* column to a cell; pd.concat gives every row the union of the columns and  *)
(* fills the missing cells with NaN.                                         *)

Cell(kind, s, n, n2) == [kind |-> kind, s |-> s, n |-> n, n2 |-> n2]
StrCell(s) == Cell("str", s, 0, 0)
IntCell(n) == Cell("int", "", n, 0)
NaNCell == Cell("nan", "", 0, 0)
\* a percentage as it came out of calculate_probabilities
PctCell(v) == IF v.nan THEN NaNCell ELSE Cell("tenths", "", v.tenths, 0)

\* f"{x:.4f}" of a coordinate given in 1e-5 degrees: the number of 1e-4 degrees
Fmt4(x) ==
    LET a == IF x < 0 THEN -x ELSE x
        q == a \div 10
        r == a % 10
        up == IF r < 5 THEN q ELSE IF r > 5 THEN q + 1 ELSE IF q % 2 = 0 THEN q ELSE q + 1
    IN  IF x < 0 THEN -up ELSE up

\* the date string, written as the digits yyyymmdd
DateCell(date) == Cell("date", "", date[1] * 10000 + date[2] * 100 + date[3], 0)

RECURSIVE UnionColumns(_, _)
UnionColumns(acc, cols) ==
    IF cols = <<>> THEN acc
    ELSE UnionColumns(IF \E i \in 1..Len(acc) : acc[i] = Head(cols)
                      THEN acc ELSE Append(acc, Head(cols)),
                      Tail(cols))

RECURSIVE ConcatColumns(_)
ConcatColumns(frames) ==
    IF frames = <<>> THEN <<>>
    ELSE UnionColumns(ConcatColumns(SubSeq(frames, 1, Len(frames) - 1)),
                      frames[Len(frames)].columns)

Range(seq) == {seq[i] : i \in 1..Len(seq)}

RECURSIVE ConcatRows(_, _)
ConcatRows(frames, columns) ==
    IF frames = <<>> THEN <<>>
    ELSE LET f == Head(frames)
             own == Range(f.columns)
             all == Range(columns)
         IN  [i \in 1..Len(f.rows) |->
                 [c \in all |-> IF c \in own THEN f.rows[i][c] ELSE NaNCell]]
             \o ConcatRows(Tail(frames), columns)

\* pd.concat(frames, ignore_index=True)
Concat(frames) ==
    LET columns == ConcatColumns(frames)
    IN  [columns |-> columns, rows |-> ConcatRows(frames, columns)]

\* the degree sign of the source's literals is written "deg"
ConditionLabels ==
    <<"Very Hot (>90degF)", "Very Cold (<32degF)", "Very Wet (>0.5 in)",
      "Very Windy (>15 mph)", "Very Uncomfortable">>
ThresholdLabels == <<"90degF", "32degF", "0.5 inches", "15 mph", "Heat Index >85">>
ProbabilityKeys == <<"hot", "cold", "wet", "windy", "uncomfortable">>
MetadataLabels == <<"Location", "Latitude", "Longitude", "Date", "Generated On">>

\* a separator with no row at all
BlankFrame_NoRow(column) == [columns |-> <<column>>, rows |-> <<>>]

\* pd.DataFrame([{column: ''}]), the separator of lines 434 and 448
BlankFrame(column) ==
    [columns |-> <<column>>, rows |-> <<[c \in {column} |-> StrCell("")]>>]

\* lines 402-450; now is what datetime.now() returns.  The except branch
\* (lines 452-455) is not modelled: with float coordinates nothing raises.
generate_csv_data(lat, lng, date, now) ==
    LET probabilities == calculate_probabilities(lat, lng, date)
        trends == get_historical_trends(lat, lng)
        df_probabilities ==
            [columns |-> <<"Weather Condition", "Probability (%)", "Threshold">>,
             rows |-> [i \in 1..5 |->
                 [c \in {"Weather Condition", "Probability (%)", "Threshold"} |->
                     IF c = "Weather Condition" THEN StrCell(ConditionLabels[i])
                     ELSE IF c = "Probability (%)"
                          THEN PctCell(Get(probabilities, ProbabilityKeys[i], Num(0)))
                          ELSE StrCell(ThresholdLabels[i])]]]
        df_trends ==
            [columns |-> <<"Year", "Hot Day Probability (%)", "Wet Day Probability (%)">>,
             rows |-> [i \in 1..Len(trends.years) |->
                 [c \in {"Year", "Hot Day Probability (%)", "Wet Day Probability (%)"} |->
                     IF c = "Year" THEN IntCell(trends.years[i])
                     ELSE IF c = "Hot Day Probability (%)"
                          THEN PctCell(trends.hot_probabilities[i])
                          ELSE PctCell(trends.wet_probabilities[i])]]]
        combined_df == Concat(<<df_probabilities, BlankFrame("Weather Condition"), df_trends>>)
        values == <<Cell("location", "", Fmt4(lat), Fmt4(lng)),
                    Cell("fixed4", "", Fmt4(lat), 0),
                    Cell("fixed4", "", Fmt4(lng), 0),
                    DateCell(date),
                    Cell("time", "", now, 0)>>
        metadata ==
            [columns |-> <<"Parameter", "Value">>,
             rows |-> [i \in 1..5 |->
                 [c \in {"Parameter", "Value"} |->
                     IF c = "Parameter" THEN StrCell(MetadataLabels[i]) ELSE values[i]]]]
    IN  Concat(<<metadata, BlankFrame("Parameter"), combined_df>>)

----------------------------------------------------------------------------
(* Direct calls on a processor whose Store holds arbitrary daily series:     *)
(* any subset of the four variables, each a date-ordered series with one     *)
(* row per day, of at most MaxLen rows taken from the candidates below.      *)

Variables == {"temperature", "precipitation", "wind", "humidity"}

Row(y, m, d, v) == [date |-> [year |-> y, month |-> m, day |-> d], value |-> v]

\* day-of-year: 2023-07-19 200, 2022-07-12 193, 2021-01-03 3,
\* 2020-12-22 357 (leap year), 2021-12-22 356, 2023-07-08 189, 2022-07-19 200
Candidates ==
    [v \in Variables |->
        IF v = "temperature"
        THEN {Row(2023, 7, 19, 91), Row(2023, 7, 19, 90), Row(2022, 7, 12, 31),
              Row(2021, 1, 3, 32), Row(2020, 12, 22, 84)}
        ELSE IF v = "humidity"
        THEN {Row(2023, 7, 19, 70), Row(2022, 7, 19, 90), Row(2020, 12, 22, 90)}
        ELSE IF v = "precipitation"
        THEN {Row(2023, 7, 19, 5), Row(2023, 7, 8, 6)}
        ELSE {Row(2023, 7, 19, 16), Row(2021, 12, 22, 15)}]

DateKey(dt) == dt.year * 10000 + dt.month * 100 + dt.day

\* the daily series of at most MaxLen rows over a set of candidate rows
SeriesOver(rows) ==
    UNION {{s \in [1..n -> rows] :
               \A i \in 1..(n - 1) : DateKey(s[i].date) < DateKey(s[i + 1].date)}
           : n \in 0..MaxLen}

\* a variable is absent, or present with one of its series
Options(v) ==
    {[present |-> FALSE, rows |-> <<>>]}
        \cup {[present |-> TRUE, rows |-> series] : series \in SeriesOver(Candidates[v])}

MkStore(o) == [v \in {w \in Variables : o[w].present} |-> o[v].rows]

Stores ==
    {MkStore([v \in Variables |->
                 IF v = "temperature" THEN t
                 ELSE IF v = "precipitation" THEN p
                 ELSE IF v = "wind" THEN w ELSE h]) :
        t \in Options("temperature"), p \in Options("precipitation"),
        w \in Options("wind"), h \in Options("humidity")}

TargetDates ==
    {<<2023, 7, 19>>, <<2024, 7, 18>>, <<2024, 12, 29>>, <<2023, 12, 25>>,
     <<2023, 1, 4>>, <<2023, 2, 29>>}
ExportDates == {<<2023, 7, 19>>}
\* (lat, lng) in 1e-5 degrees
Locations == {<<4071280, -7400597>>, <<-3386882, 15120929>>}
Clock == {0, 1}

NoFrame == [op |-> "none", pc |-> "idle"]
NoRet == [op |-> "none"]
Slots == {1, 2}

InitStore ==
    /\ dir_exists = FALSE
    /\ files = {}
    /\ seed = 0
    /\ pandas_empty_apply \in {"raises", "nan"}
    /\ historical_data \in Stores
    /\ data_loaded = FALSE
    /\ phase = "serving"
    /\ reqs = [s \in Slots |-> NoFrame]
    /\ responses = {}
    /\ ret = NoRet

\* the frames the call selected, for the variables it looked at
Windows(target_date) ==
    IF ~StrptimeOk(target_date) THEN [v \in {} |-> <<>>]
    ELSE [v \in DOMAIN historical_data |->
             SamePeriod(historical_data[v], tm_yday(strptime(target_date)))]

\* one call per constructed processor: ret records the value it returned
CallEstimate ==
    /\ ret = NoRet
    /\ \E loc \in Locations, date \in TargetDates :
        /\ ret' = [op |-> "calculate_probabilities", lat |-> loc[1], lng |-> loc[2],
                   date |-> date,
                   result |-> calculate_probabilities(loc[1], loc[2], date),
                   windows |-> Windows(date)]
        /\ UNCHANGED <<dir_exists, files, seed, pandas_empty_apply, historical_data,
                       data_loaded, phase, reqs, responses>>

CallTrends ==
    /\ ret = NoRet
    /\ \E loc \in Locations :
        /\ ret' = [op |-> "get_historical_trends", lat |-> loc[1], lng |-> loc[2],
                   result |-> get_historical_trends(loc[1], loc[2])]
        /\ UNCHANGED <<dir_exists, files, seed, pandas_empty_apply, historical_data,
                       data_loaded, phase, reqs, responses>>

CallExport ==
    /\ ret = NoRet
    /\ \E loc \in Locations, date \in ExportDates, now \in Clock :
        /\ ret' = [op |-> "generate_csv_data", lat |-> loc[1], lng |-> loc[2],
                   date |-> date, now |-> now,
                   result |-> generate_csv_data(loc[1], loc[2], date, now)]
        /\ UNCHANGED <<dir_exists, files, seed, pandas_empty_apply, historical_data,
                       data_loaded, phase, reqs, responses>>

NextStore == CallEstimate \/ CallTrends \/ CallExport

SpecStore == InitStore /\ [][NextStore]_vars

----------------------------------------------------------------------------
(* Startup: load_nasa_data and what it calls.  A file name is the sequence   *)
(* of its characters.                                                         *)

\* files listed in one data directory
MaxFiles == 1
\* seeds of numpy's generator
NumSeeds == 2
\* the generated daily range is kept every DayStep-th day
DayStep == 183

UpperCase == <<"A", "B", "C", "D", "E", "F", "G", "H", "I", "J", "K", "L", "M",
               "N", "O", "P", "Q", "R", "S", "T", "U", "V", "W", "X", "Y", "Z">>
LowerCase == <<"a", "b", "c", "d", "e", "f", "g", "h", "i", "j", "k", "l", "m",
               "n", "o", "p", "q", "r", "s", "t", "u", "v", "w", "x", "y", "z">>

\* str.lower()
Lower(name) ==
    [i \in 1..Len(name) |->
        IF \E j \in 1..26 : UpperCase[j] = name[i]
        THEN LowerCase[CHOOSE j \in 1..26 : UpperCase[j] = name[i]]
        ELSE name[i]]

\* sub in name
Contains(name, sub) ==
    \E i \in 0..(Len(name) - Len(sub)) : SubSeq(name, i + 1, i + Len(sub)) = sub

\* fnmatch of "*" + suffix, case sensitive
EndsWith(name, suffix) ==
    /\ Len(name) >= Len(suffix)
    /\ SubSeq(name, Len(name) - Len(suffix) + 1, Len(name)) = suffix

FileNames ==
    {<<"G", "L", "D", "A", "S", ".", "n", "c">>,
     <<"g", "p", "m", "_", "m", "e", "r", "r", "a", ".", "t", "x", "t">>,
     <<"v", "i", "i", "r", "s", ".", "c", "s", "v">>,
     <<"d", "a", "t", "a", ".", "c", "s", "v">>,
     <<"n", "o", "t", "e", "s", ".", "m", "d">>}

Directories == {fs \in SUBSET FileNames : Cardinality(fs) <= MaxFiles}

\* the methods class NASADataProcessor defines
ClassMethods ==
    {"__init__", "load_nasa_data", "_load_actual_nasa_data", "_process_gldas_data",
     "_process_gpm_data", "_process_merra_data", "_process_viirs_data",
     "_process_generic_data", "_generate_enhanced_sample_data", "_generate_sample_data",
     "calculate_probabilities", "get_historical_trends", "generate_csv_data"}

\* lines 58-68: the handler a lower-cased file name is dispatched to
Classify(filename) ==
    IF Contains(filename, <<"g", "l", "d", "a", "s">>) THEN "gldas"
    ELSE IF Contains(filename, <<"g", "p", "m">>)
            \/ Contains(filename, <<"i", "m", "e", "r", "g">>) THEN "gpm"
    ELSE IF Contains(filename, <<"m", "e", "r", "r", "a">>)
            \/ Contains(filename, <<"m", "2", "t", "m", "n", "x", "l", "n", "d">>) THEN "merra"
    ELSE IF Contains(filename, <<"c", "l", "d", "m", "s", "k">>)
            \/ Contains(filename, <<"v", "i", "i", "r", "s">>) THEN "viirs"
    ELSE "generic"

\* the variable a handler fills and the generator method it calls for it
HandlerVariable(handler) ==
    IF handler = "gldas" THEN "temperature"
    ELSE IF handler = "gpm" THEN "precipitation"
    ELSE IF handler = "merra" THEN "wind" ELSE "humidity"
HandlerGenerator(handler) ==
    IF handler = "gldas" THEN "_generate_sample_temperature_data"
    ELSE IF handler = "gpm" THEN "_generate_sample_precipitation_data"
    ELSE IF handler = "merra" THEN "_generate_sample_wind_data"
    ELSE "_generate_sample_humidity_data"

(* calendar arithmetic of pd.date_range *)
DaysBeforeYear(y) == 365 * (y - 1) + ((y - 1) \div 4) - ((y - 1) \div 100) + ((y - 1) \div 400)
ToOrdinal(dt) == DaysBeforeYear(dt.year) + tm_yday(dt)
FromOrdinal(n) ==
    LET y == CHOOSE yy \in 2000..2030 : DaysBeforeYear(yy) < n /\ n <= DaysBeforeYear(yy + 1)
        doy == n - DaysBeforeYear(y)
        m == CHOOSE mm \in 1..12 :
                 DaysBeforeMonth(y, mm) < doy /\ doy <= DaysBeforeMonth(y, mm) + DaysInMonth(y, mm)
    IN  [year |-> y, month |-> m, day |-> doy - DaysBeforeMonth(y, m)]

Date(y, m, d) == [year |-> y, month |-> m, day |-> d]

\* pd.date_range(start, end, freq='D'), every DayStep-th day of it
DateRange(start, end) ==
    [j \in 1..((ToOrdinal(end) - ToOrdinal(start)) \div DayStep + 1) |->
        FromOrdinal(ToOrdinal(start) + (j - 1) * DayStep)]

(* The random draws.  Gaussian noise around the seasonal base makes every     *)
(* temperature a possible draw; exponential and Weibull draws are any value   *)
(* >= 0; humidity is a Gaussian draw that the generator then clamps.  The     *)
(* model draws from representative values, the k-th stream of a seed being    *)
(* a fixed walk over them.                                                     *)
TemperatureDraws == <<95, 20, 91, 60, 31, 90, 32>>
PrecipitationDraws == <<0, 6, 1, 12, 5>>
WindDraws == <<16, 0, 8, 30, 15>>
HumidityDraws == <<70, 5, 90, 120, 50>>

Draw(draws, s, i) == draws[((s + i * (s + 1)) % Len(draws)) + 1]

Max(a, b) == IF a >= b THEN a ELSE b
Min(a, b) == IF a <= b THEN a ELSE b

Generated(dates, s, lo, hi) ==
    [v \in Variables |->
        [i \in 1..Len(dates) |->
            [date |-> dates[i],
             value |-> IF v = "temperature" THEN Draw(TemperatureDraws, s, i)
                       ELSE IF v = "precipitation" THEN Draw(PrecipitationDraws, s + 1, i)
                       ELSE IF v = "wind" THEN Draw(WindDraws, s + 2, i)
                       ELSE Max(lo, Min(hi, Draw(HumidityDraws, s + 3, i)))]]]

\* lines 132-213: 2008-01-01..2023-12-31, humidity clamped to [15, 95]
generate_enhanced_sample_data(s) ==
    Generated(DateRange(Date(2008, 1, 1), Date(2023, 12, 31)), s, 15, 95)

\* lines 215-261: 2010-01-01..2024-12-31, humidity clamped to [10, 100]
generate_sample_data(s) ==
    Generated(DateRange(Date(2010, 1, 1), Date(2024, 12, 31)), s, 10, 100)

\* glob.glob of *.txt, *.nc and *.csv, in that order
Glob(dir, suffix) ==
    LET hits == {f \in dir : EndsWith(f, suffix)}
        RECURSIVE List(_)
        List(fs) == IF fs = {} THEN <<>>
                    ELSE LET f == CHOOSE g \in fs : TRUE IN <<f>> \o List(fs \ {f})
    IN  List(hits)
NasaFiles(dir) ==
    Glob(dir, <<".", "t", "x", "t">>) \o Glob(dir, <<".", "n", "c">>)
        \o Glob(dir, <<".", "c", "s", "v">>)

\* lines 80-130: one file handled.  A known producer fills its variable when
\* it is missing, by calling a generator method; a call of a method the class
\* does not define raises AttributeError, which the handler catches.  The
\* generic handler parses the file and stores nothing.
ProcessFile(store, file_path, s) ==
    LET handler == Classify(Lower(file_path))
    IN  IF handler = "generic" THEN store
        ELSE IF HandlerVariable(handler) \in DOMAIN store THEN store
        ELSE IF HandlerGenerator(handler) \in ClassMethods
             THEN Put(store, HandlerVariable(handler),
                      generate_enhanced_sample_data(s)[HandlerVariable(handler)])
             ELSE store

RECURSIVE ProcessFiles(_, _, _)
ProcessFiles(store, nasa_files, s) ==
    IF nasa_files = <<>> THEN store
    ELSE ProcessFiles(ProcessFile(store, Head(nasa_files), s), Tail(nasa_files), s)

EmptyStore == [v \in {} |-> <<>>]

\* lines 40-78: [store, the returned flag]
load_actual_nasa_data(dir, s) ==
    LET nasa_files == NasaFiles(dir)
    IN  IF nasa_files = <<>> THEN [store |-> EmptyStore, returned |-> FALSE]
        ELSE LET store == ProcessFiles(EmptyStore, nasa_files, s)
             IN  [store |-> store, returned |-> DOMAIN store # {}]

\* a start that forgets to generate when the directory is missing
load_nasa_data_NoFallback(exists, dir, s) ==
    IF ~exists
    THEN [historical_data |-> EmptyStore, data_loaded |-> FALSE]
    ELSE LET loaded == load_actual_nasa_data(dir, s)
         IN  IF ~loaded.returned
             THEN [historical_data |-> generate_enhanced_sample_data(s), data_loaded |-> FALSE]
             ELSE [historical_data |-> loaded.store, data_loaded |-> TRUE]

\* a start that reports success although it fell back to generated data
load_nasa_data_FlagOnFallback(exists, dir, s) ==
    IF ~exists
    THEN [historical_data |-> generate_sample_data(s), data_loaded |-> FALSE]
    ELSE LET loaded == load_actual_nasa_data(dir, s)
         IN  IF ~loaded.returned
             THEN [historical_data |->
                       [v \in Variables |->
                           generate_enhanced_sample_data(s)[v]],
                   data_loaded |-> TRUE]
             ELSE [historical_data |-> loaded.store, data_loaded |-> TRUE]

\* lines 14-33: the Store and the flag load_nasa_data leaves.  In the enhanced
\* fallback the ingested Store is empty, so the four generated series are the
\* whole Store.  (Lines 35-38 are not modelled: nothing in the try block raises.)
load_nasa_data(exists, dir, s) ==
    IF ~exists
    THEN [historical_data |-> generate_sample_data(s), data_loaded |-> FALSE]
    ELSE LET loaded == load_actual_nasa_data(dir, s)
         IN  IF ~loaded.returned
             THEN [historical_data |->
                       [v \in Variables |->
                           generate_enhanced_sample_data(s)[v]],
                   data_loaded |-> FALSE]
             ELSE [historical_data |-> loaded.store, data_loaded |-> TRUE]

----------------------------------------------------------------------------
(* The running service (src/app.py): the module-level constructor call, then *)
(* request handlers running concurrently, one per slot.  An estimate takes   *)
(* one step per read of self.historical_data; a trend or export call is one  *)
(* step.                                                                      *)

Init ==
    /\ dir_exists \in BOOLEAN
    /\ files \in Directories
    /\ (~dir_exists => files = {})
    /\ seed \in 0..(NumSeeds - 1)
    /\ pandas_empty_apply \in {"raises", "nan"}
    /\ historical_data = EmptyStore
    /\ data_loaded = FALSE
    /\ phase = "init"
    /\ reqs = [s \in Slots |-> NoFrame]
    /\ responses = {}
    /\ ret = NoRet

\* app.py line 13: NASADataProcessor(), lines 8-12
Construct ==
    /\ phase = "init"
    /\ LET loaded == load_nasa_data(dir_exists, files, seed)
       IN  /\ historical_data' = loaded.historical_data
           /\ data_loaded' = loaded.data_loaded
    /\ phase' = "serving"
    /\ UNCHANGED <<dir_exists, files, seed, pandas_empty_apply, reqs, responses, ret>>

ServedLocation == <<4071280, -7400597>>
ServedDates == {<<2023, 7, 19>>, <<2023, 2, 29>>}

Frame(op, pc, date) ==
    [op |-> op, pc |-> pc, lat |-> ServedLocation[1], lng |-> ServedLocation[2],
     date |-> date, day_of_year |-> 0, probabilities |-> EmptyDict,
     status |-> 0, result |-> EmptyDict]

Serving == <<dir_exists, files, seed, pandas_empty_apply, historical_data,
             data_loaded, phase>>

\* app.py lines 21-60, 78-106, 123-161: a request arrives; a date that does
\* not parse is answered 400 before the processor is called
Receive(s) ==
    /\ phase = "serving"
    /\ reqs[s].pc = "idle"
    /\ \/ \E date \in ServedDates :
              reqs' = [reqs EXCEPT ![s] =
                          IF StrptimeOk(date)
                          THEN Frame("calculate_probabilities", "parse", date)
                          ELSE [Frame("calculate_probabilities", "done", date)
                                   EXCEPT !.status = 400]]
       \/ reqs' = [reqs EXCEPT ![s] =
                      Frame("get_historical_trends", "call", <<0, 0, 0>>)]
       \/ \E date \in ExportDates :
              reqs' = [reqs EXCEPT ![s] =
                          IF StrptimeOk(date)
                          THEN Frame("generate_csv_data", "call", date)
                          ELSE [Frame("generate_csv_data", "done", date)
                                   EXCEPT !.status = 400]]
    /\ UNCHANGED <<Serving, responses, ret>>

Finish(frame, result) == [frame EXCEPT !.pc = "done", !.status = 200, !.result = result]

\* lines 266-269
EstParse(s) ==
    /\ reqs[s].op = "calculate_probabilities" /\ reqs[s].pc = "parse"
    /\ reqs' = [reqs EXCEPT ![s] =
                   IF StrptimeOk(reqs[s].date)
                   THEN [reqs[s] EXCEPT !.pc = "temperature",
                                        !.day_of_year = tm_yday(strptime(reqs[s].date)),
                                        !.probabilities = EmptyDict]
                   ELSE Finish(reqs[s], DefaultProbabilities)]
    /\ UNCHANGED <<Serving, responses, ret>>

\* the filtered frame written back into the Store instead of a local
EstTemperature_InPlace(s) ==
    /\ reqs[s].op = "calculate_probabilities" /\ reqs[s].pc = "temperature"
    /\ reqs' = [reqs EXCEPT ![s] =
                   [reqs[s] EXCEPT !.pc = "precipitation",
                             !.probabilities = TemperatureStage(reqs[s].day_of_year, reqs[s].probabilities)]]
    /\ historical_data' =
           IF "temperature" \in DOMAIN historical_data
           THEN [historical_data EXCEPT !["temperature"] =
                    SamePeriod(@, reqs[s].day_of_year)]
           ELSE historical_data
    /\ UNCHANGED <<dir_exists, files, seed, pandas_empty_apply, data_loaded, phase,
                   responses, ret>>

\* lines 272-286
EstTemperature(s) ==
    /\ reqs[s].op = "calculate_probabilities" /\ reqs[s].pc = "temperature"
    /\ reqs' = [reqs EXCEPT ![s] =
                   [reqs[s] EXCEPT !.pc = "precipitation",
                             !.probabilities = TemperatureStage(reqs[s].day_of_year, reqs[s].probabilities)]]
    /\ UNCHANGED <<Serving, responses, ret>>

\* the filtered frame written back into the Store instead of a local
EstPrecipitation_InPlace(s) ==
    /\ reqs[s].op = "calculate_probabilities" /\ reqs[s].pc = "precipitation"
    /\ reqs' = [reqs EXCEPT ![s] =
                   [reqs[s] EXCEPT !.pc = "wind",
                             !.probabilities = PrecipitationStage(reqs[s].day_of_year, reqs[s].probabilities)]]
    /\ historical_data' =
           IF "precipitation" \in DOMAIN historical_data
           THEN [historical_data EXCEPT !["precipitation"] =
                    SamePeriod(@, reqs[s].day_of_year)]
           ELSE historical_data
    /\ UNCHANGED <<dir_exists, files, seed, pandas_empty_apply, data_loaded, phase,
                   responses, ret>>

\* lines 289-299
EstPrecipitation(s) ==
    /\ reqs[s].op = "calculate_probabilities" /\ reqs[s].pc = "precipitation"
    /\ reqs' = [reqs EXCEPT ![s] =
                   [reqs[s] EXCEPT !.pc = "wind",
                             !.probabilities = PrecipitationStage(reqs[s].day_of_year, reqs[s].probabilities)]]
    /\ UNCHANGED <<Serving, responses, ret>>

\* lines 302-312
EstWind(s) ==
    /\ reqs[s].op = "calculate_probabilities" /\ reqs[s].pc = "wind"
    /\ reqs' = [reqs EXCEPT ![s] =
                   [reqs[s] EXCEPT !.pc = "comfort",
                             !.probabilities = WindStage(reqs[s].day_of_year, reqs[s].probabilities)]]
    /\ UNCHANGED <<Serving, responses, ret>>

\* lines 315-349, and lines 359-368 when the stage raises
EstComfort(s) ==
    /\ reqs[s].op = "calculate_probabilities" /\ reqs[s].pc = "comfort"
    /\ LET c == ComfortStage(reqs[s].day_of_year, reqs[s].probabilities)
       IN  reqs' = [reqs EXCEPT ![s] =
                       IF c.raised THEN Finish(reqs[s], DefaultProbabilities)
                       ELSE [reqs[s] EXCEPT !.pc = "ensure", !.probabilities = c.probabilities]]
    /\ UNCHANGED <<Serving, responses, ret>>

\* lines 351-357
EstEnsure(s) ==
    /\ reqs[s].op = "calculate_probabilities" /\ reqs[s].pc = "ensure"
    /\ reqs' = [reqs EXCEPT ![s] = Finish(reqs[s], EnsureKeys(reqs[s].probabilities))]
    /\ UNCHANGED <<Serving, responses, ret>>

\* lines 370-390
Trends(s) ==
    /\ reqs[s].op = "get_historical_trends" /\ reqs[s].pc = "call"
    /\ reqs' = [reqs EXCEPT ![s] =
                   Finish(reqs[s], get_historical_trends(reqs[s].lat, reqs[s].lng))]
    /\ UNCHANGED <<Serving, responses, ret>>

\* lines 402-450, datetime.now() being read when the metadata is built
Export(s) ==
    /\ reqs[s].op = "generate_csv_data" /\ reqs[s].pc = "call"
    /\ \E now \in Clock :
           reqs' = [reqs EXCEPT ![s] =
                       Finish(reqs[s], generate_csv_data(reqs[s].lat, reqs[s].lng, reqs[s].date, now))]
    /\ UNCHANGED <<Serving, responses, ret>>

\* the handler returns; the answers to /api/weather-probability are logged
Respond(s) ==
    /\ reqs[s].pc = "done"
    /\ responses' =
           IF reqs[s].op = "calculate_probabilities" /\ reqs[s].status = 200
           THEN responses \cup {[date |-> reqs[s].date, lat |-> reqs[s].lat,
                                 lng |-> reqs[s].lng, result |-> reqs[s].result]}
           ELSE responses
    /\ reqs' = [reqs EXCEPT ![s] = NoFrame]
    /\ UNCHANGED <<Serving, ret>>

Next ==
    \/ Construct
    \/ \E s \in Slots :
           \/ Receive(s)
           \/ EstParse(s)
           \/ EstTemperature(s)
           \/ EstPrecipitation(s)
           \/ EstWind(s)
           \/ EstComfort(s)
           \/ EstEnsure(s)
           \/ Trends(s)
           \/ Export(s)
           \/ Respond(s)

Spec == Init /\ [][Next]_vars

----------------------------------------------------------------------------
(* Properties of the direct calls (checked under SpecStore) *)

IsEstimate == ret.op = "calculate_probabilities"
ZeroPct == [nan |-> FALSE, tenths |-> 0]
Value(k) == Get(ret.result, k, NaN)
\* the rows the call selected for a variable; none when the variable is absent
\* or the date did not parse
Selected(v) == Get(ret.windows, v, <<>>)
Doy(row) == tm_yday(row.date)
TargetDoy == tm_yday(strptime(ret.date))
CommonDates ==
    {Selected("temperature")[i].date : i \in 1..Len(Selected("temperature"))}
        \cap {Selected("humidity")[i].date : i \in 1..Len(Selected("humidity"))}
DisjointWindows ==
    /\ Len(Selected("temperature")) > 0
    /\ Len(Selected("humidity")) > 0
    /\ CommonDates = {}

\* C1: for every Store and every well-formed target date the call returns
\* exactly the five keys, each a number (not NaN) between 0 and 100, also when
\* the temperature and humidity windows are non-empty and share no date.
C1_FiveNumbersInRange ==
    (IsEstimate /\ StrptimeOk(ret.date)) =>
        /\ DOMAIN ret.result = expected_keys
        /\ \A k \in expected_keys :
               /\ ~ret.result[k].nan
               /\ ret.result[k].tenths \in 0..1000

\* C2: a call that fails internally (the date does not parse, or the comfort
\* stage raises) still returns, and returns all five keys equal to 0.0.
InternalFailure ==
    \/ ~StrptimeOk(ret.date)
    \/ (DisjointWindows /\ pandas_empty_apply = "raises")
C2_FailSoft ==
    (IsEstimate /\ InternalFailure) =>
        /\ DOMAIN ret.result = expected_keys
        /\ \A k \in expected_keys : ret.result[k] = ZeroPct
C2_Witness ==
    /\ IsEstimate
    /\ ~StrptimeOk(ret.date)
    /\ DOMAIN historical_data = Variables
    /\ \A v \in Variables : Len(historical_data[v]) > 0

\* C3: a variable that is absent, or whose window selects no row, leaves the
\* keys derived from it at exactly 0.0, whatever the other variables hold.
C3_AbsentGivesZero ==
    IsEstimate =>
        /\ Len(Selected("precipitation")) = 0 => Value("wet") = ZeroPct
        /\ Len(Selected("wind")) = 0 => Value("windy") = ZeroPct
        /\ Len(Selected("temperature")) = 0 =>
               /\ Value("hot") = ZeroPct
               /\ Value("cold") = ZeroPct
               /\ Value("uncomfortable") = ZeroPct
        /\ Len(Selected("humidity")) = 0 => Value("uncomfortable") = ZeroPct
\* precipitation absent while temperature, wind and the comfort index are not zero
C3_Witness ==
    /\ IsEstimate
    /\ "precipitation" \notin DOMAIN historical_data
    /\ Value("wet") = ZeroPct
    /\ Value("hot").tenths > 0
    /\ Value("windy").tenths > 0
    /\ Value("uncomfortable").tenths > 0

\* C4: for a non-empty window, hot, cold, wet and windy are 100 times the
\* fraction of selected rows strictly beyond the threshold, rounded to one
\* decimal.
Fraction(v, Test(_)) ==
    Num(RoundPct(Cardinality({i \in 1..Len(Selected(v)) : Test(Selected(v)[i])}),
                 Len(Selected(v))))
C4_ExceedanceFractions ==
    (IsEstimate /\ StrptimeOk(ret.date)) =>
        /\ Len(Selected("temperature")) > 0 =>
               /\ Value("hot") = Fraction("temperature", LAMBDA r : r.value > 90)
               /\ Value("cold") = Fraction("temperature", LAMBDA r : r.value < 32)
        /\ Len(Selected("precipitation")) > 0 =>
               Value("wet") = Fraction("precipitation", LAMBDA r : r.value > 5)
        /\ Len(Selected("wind")) > 0 =>
               Value("windy") = Fraction("wind", LAMBDA r : r.value > 15)

\* C5: the rows selected for a target date with day-of-year d are exactly the
\* rows whose own day-of-year is in [d-7, d+7], in series order, with no
\* wraparound: for 2024-12-29 no row of days 1..6 is selected, and for a target
\* in the first week of January no December row is.
C5_WindowNoWraparound ==
    (IsEstimate /\ StrptimeOk(ret.date)) =>
        \A v \in DOMAIN historical_data :
            LET series == historical_data[v]
                inside == {i \in 1..Len(series) :
                              /\ Doy(series[i]) - TargetDoy <= 7
                              /\ TargetDoy - Doy(series[i]) <= 7}
            IN  /\ Len(Selected(v)) = Cardinality(inside)
                /\ \A i \in 1..Len(Selected(v)) :
                       \E j \in inside : Selected(v)[i] = series[j]
                /\ ret.date = <<2024, 12, 29>> =>
                       \A i \in 1..Len(Selected(v)) : Selected(v)[i].date.month # 1
                /\ TargetDoy <= 7 =>
                       \A i \in 1..Len(Selected(v)) : Selected(v)[i].date.month # 12
\* target 2024-12-29: the row of 2020-12-22 (day 357) is selected, the row of
\* 2021-01-03 (day 3) of the same series is not
C5_Witness ==
    /\ IsEstimate
    /\ ret.date = <<2024, 12, 29>>
    /\ "temperature" \in DOMAIN historical_data
    /\ \E i \in 1..Len(historical_data["temperature"]) :
           Doy(historical_data["temperature"][i]) \in 1..6
    /\ Len(Selected("temperature")) = 1
    /\ Doy(Selected("temperature")[1]) = 357

\* C6: get_historical_trends returns years 2015..2024 and two sequences of
\* length 10 whose i-th elements are the hot and the wet value of
\* calculate_probabilities for July 15 of the i-th year.
C6_TrendsShape ==
    ret.op = "get_historical_trends" =>
        /\ ret.result.years = <<2015, 2016, 2017, 2018, 2019, 2020, 2021, 2022, 2023, 2024>>
        /\ Len(ret.result.hot_probabilities) = 10
        /\ Len(ret.result.wet_probabilities) = 10
        /\ \A i \in 1..10 :
               LET p == calculate_probabilities(ret.lat, ret.lng, <<2014 + i, 7, 15>>)
               IN  /\ ret.result.hot_probabilities[i] = p["hot"]
                   /\ ret.result.wet_probabilities[i] = p["wet"]
\* a trend that is neither all zero nor constant
C6_Witness ==
    /\ ret.op = "get_historical_trends"
    /\ ret.result.hot_probabilities[1].tenths > 0
    /\ ret.result.wet_probabilities[1] # ret.result.wet_probabilities[2]

\* C10: on a Store with all four variables the export has 22 rows: the five
\* metadata rows, one blank row, the five probability rows with their
\* thresholds, one blank row, and the ten trend rows of 2015..2024.
IsBlankRow(row, column) ==
    \A c \in DOMAIN row : row[c] = IF c = column THEN StrCell("") ELSE NaNCell
C10_ExportLayout ==
    (ret.op = "generate_csv_data" /\ DOMAIN historical_data = Variables) =>
        LET rows == ret.result.rows
        IN  /\ Len(rows) = 22
            /\ \A i \in 1..Len(rows) : DOMAIN rows[i] = Range(ret.result.columns)
            /\ \A i \in 1..5 :
                   rows[i]["Parameter"] =
                       StrCell(<<"Location", "Latitude", "Longitude", "Date", "Generated On">>[i])
            /\ IsBlankRow(rows[6], "Parameter")
            /\ \A i \in 1..5 :
                   /\ rows[6 + i]["Weather Condition"] =
                          StrCell(<<"Very Hot (>90degF)", "Very Cold (<32degF)",
                                    "Very Wet (>0.5 in)", "Very Windy (>15 mph)",
                                    "Very Uncomfortable">>[i])
                   /\ rows[6 + i]["Threshold"] =
                          StrCell(<<"90degF", "32degF", "0.5 inches", "15 mph",
                                    "Heat Index >85">>[i])
                   /\ rows[6 + i]["Parameter"] = NaNCell
            /\ IsBlankRow(rows[12], "Weather Condition")
            /\ \A i \in 1..10 :
                   /\ rows[12 + i]["Year"] = IntCell(2014 + i)
                   /\ rows[12 + i]["Weather Condition"] = NaNCell
            /\ \A i \in (1..12) : rows[i]["Year"] = NaNCell
            /\ \A i \in (1..6) \cup (12..22) : rows[i]["Threshold"] = NaNCell
            /\ \A i \in 7..22 : i # 12 => rows[i]["Parameter"] = NaNCell
C10_Witness ==
    /\ ret.op = "generate_csv_data"
    /\ DOMAIN historical_data = Variables
    /\ \A v \in Variables : Len(historical_data[v]) > 0
    /\ Len(ret.result.rows) = 22
    /\ ret.result.rows[7]["Probability (%)"].n = 1000

----------------------------------------------------------------------------
(* Properties of the running service (checked under Spec) *)

OtherSlot(s) == CHOOSE t \in Slots : t # s
Answered(s) == reqs[s].pc = "done" /\ reqs[s].status = 200

\* C7: once startup has finished no request step changes the Store, and the
\* Store is never loaded again.
C7_StoreReadOnly ==
    [][phase = "serving" => (historical_data' = historical_data /\ phase' = "serving")]_vars
\* an export and a trend request have both completed after an estimate was answered
C7_Witness ==
    /\ phase = "serving"
    /\ responses # {}
    /\ \E s \in Slots :
           /\ Answered(s) /\ reqs[s].op = "generate_csv_data"
           /\ Answered(OtherSlot(s)) /\ reqs[OtherSlot(s)].op = "get_historical_trends"

\* C8: a handler's result is the result of the same call run alone on the
\* Store, whatever ran in between; so two calculate_probabilities calls with
\* the same arguments, in sequence or interleaved, return the same.
C8_SameInputsSameResult ==
    /\ \A r1, r2 \in responses :
           (r1.date = r2.date /\ r1.lat = r2.lat /\ r1.lng = r2.lng) => r1.result = r2.result
    /\ \A s \in Slots :
           Answered(s) =>
               /\ reqs[s].op = "calculate_probabilities" =>
                      /\ reqs[s].result =
                             calculate_probabilities(reqs[s].lat, reqs[s].lng, reqs[s].date)
                      /\ \A r \in responses :
                             (r.date = reqs[s].date /\ r.lat = reqs[s].lat /\ r.lng = reqs[s].lng)
                                 => r.result = reqs[s].result
               /\ reqs[s].op = "get_historical_trends" =>
                      reqs[s].result = get_historical_trends(reqs[s].lat, reqs[s].lng)
               /\ reqs[s].op = "generate_csv_data" =>
                      reqs[s].result =
                          generate_csv_data(reqs[s].lat, reqs[s].lng, reqs[s].date,
                                            reqs[s].result.rows[5]["Value"].n)
\* two estimates of the same date are answered while a third answer is logged
C8_Witness ==
    /\ responses # {}
    /\ \A s \in Slots :
           /\ Answered(s)
           /\ reqs[s].op = "calculate_probabilities"
           /\ reqs[s].date = <<2023, 7, 19>>
           /\ reqs[s].result["hot"].tenths > 0
           /\ reqs[s].result["uncomfortable"].tenths > 0

\* C9: when the data directory does not exist, or ingestion populates no
\* variable, the Store ends up with all four variables of the enhanced profile
\* (2008-01-01..2023-12-31, humidity within [15, 95]).
InProfile(series, v, first, last, lo, hi) ==
    /\ Len(series) > 0
    /\ series[1].date = first
    /\ \A i \in 1..Len(series) :
           /\ DateKey(first) <= DateKey(series[i].date)
           /\ DateKey(series[i].date) <= DateKey(last)
           /\ v = "humidity" => (lo <= series[i].value /\ series[i].value <= hi)
    /\ DateKey(last) - DateKey(series[Len(series)].date) < 10000
IsEnhanced(store) ==
    /\ DOMAIN store = Variables
    /\ \A v \in Variables :
           InProfile(store[v], v, Date(2008, 1, 1), Date(2023, 12, 31), 15, 95)
IsLegacy(store) ==
    /\ DOMAIN store = Variables
    /\ \A v \in Variables :
           InProfile(store[v], v, Date(2010, 1, 1), Date(2024, 12, 31), 10, 100)
NothingIngested ==
    ~dir_exists \/ ~load_actual_nasa_data(files, seed).returned
C9_EnhancedOnEveryFallback ==
    (phase = "serving" /\ NothingIngested) => IsEnhanced(historical_data)

\* C9 as amended: a missing directory gives the four variables of the legacy
\* profile (2010-01-01..2024-12-31, humidity within [10, 100]); an existing
\* directory whose ingestion populates nothing gives the four variables of
\* the enhanced profile.
C9_FallbackProfiles ==
    (phase = "serving" /\ NothingIngested) =>
        /\ DOMAIN historical_data = Variables
        /\ dir_exists => IsEnhanced(historical_data)
        /\ ~dir_exists => (IsLegacy(historical_data) /\ ~IsEnhanced(historical_data))
C9_Witness ==
    /\ phase = "serving"
    /\ ~dir_exists
    /\ IsLegacy(historical_data)
    /\ historical_data["temperature"][1].date = Date(2010, 1, 1)

----------------------------------------------------------------------------
(* Properties of ingestion (checked under Spec) *)

\* the files _load_actual_nasa_data iterates over, and the handler of each
Ingested == load_actual_nasa_data(files, seed)
Handlers == {Classify(Lower(NasaFiles(files)[i])) : i \in 1..Len(NasaFiles(files))}
IngestionPopulated == dir_exists /\ DOMAIN Ingested.store # {}

\* C11: once the constructor has run, data_loaded is true exactly when
\* ingestion from the data directory populated at least one variable; it is
\* false whenever the whole Store came from a fallback generator (missing
\* directory, no candidate file, only unclassified files, or a handler that
\* failed); and no later step changes the flag.
C11_FlagReflectsIngestion ==
    [][/\ (phase = "init" /\ phase' = "serving") =>
              /\ data_loaded' <=> IngestionPopulated
              /\ NothingIngested => ~data_loaded'
       /\ phase = "serving" => (data_loaded' = data_loaded /\ phase' = "serving")]_vars
\* a directory holding a producer's file whose handler failed: the Store is
\* generated, the flag is false, and it is still false after a request
C11_Witness ==
    /\ phase = "serving"
    /\ dir_exists
    /\ Handlers # {} /\ "generic" \notin Handlers
    /\ IsEnhanced(historical_data)
    /\ ~data_loaded
    /\ \E s \in Slots : reqs[s].pc = "done"

\* C12: a file named after a known producer leaves the producer's variable
\* in the Store after _load_actual_nasa_data, and the ingestion returns true;
\* a directory whose files match no producer leaves no variable.
C12_ProducerFileIngested ==
    (phase = "serving" /\ dir_exists) =>
        /\ \A h \in Handlers \ {"generic"} :
               /\ HandlerVariable(h) \in DOMAIN Ingested.store
               /\ Ingested.returned
        /\ Handlers \subseteq {"generic"} => DOMAIN Ingested.store = {}

----------------------------------------------------------------------------
(* Further properties of the direct calls (checked under SpecStore) *)

\* the rows of the inner join of the two windows on exact date, as pairs of
\* positions, and those whose heat index is above 85
JoinedRows ==
    {p \in (1..Len(Selected("temperature"))) \X (1..Len(Selected("humidity"))) :
        Selected("temperature")[p[1]].date = Selected("humidity")[p[2]].date}
UncomfortableRows ==
    {p \in JoinedRows :
        20 * Selected("temperature")[p[1]].value
            + (Selected("humidity")[p[2]].value - 50) > 20 * 85}

\* C13: when the temperature window and the humidity window are both
\* non-empty, uncomfortable is a number: 100 times the fraction of joined
\* rows with temperature + 0.05 * (humidity - 50) > 85, rounded to one
\* decimal; rows whose date is in one window only are not counted.
C13_ComfortFraction ==
    (/\ IsEstimate /\ StrptimeOk(ret.date)
     /\ Len(Selected("temperature")) > 0
     /\ Len(Selected("humidity")) > 0) =>
        /\ ~Value("uncomfortable").nan
        /\ JoinedRows # {} =>
               Value("uncomfortable") =
                   Num(RoundPct(Cardinality(UncomfortableRows), Cardinality(JoinedRows)))

\* C14: the estimate depends on the target date only through its day of
\* year, and not on lat, lng or the year: two target dates with the same day
\* of year give the same result on the same Store.  In the trends, July 15 is
\* day 197 in 2016, 2020, 2024 and day 196 in the other seven years, so two
\* years with the same leap status have equal hot and equal wet values and
\* each sequence takes at most two distinct values.
SameDayOfYear(d1, d2) ==
    /\ StrptimeOk(d1) /\ StrptimeOk(d2)
    /\ tm_yday(strptime(d1)) = tm_yday(strptime(d2))
Values(seq) == {seq[i] : i \in 1..Len(seq)}
C14_DayOfYearOnly ==
    /\ IsEstimate =>
           \A loc \in Locations, d \in TargetDates :
               SameDayOfYear(d, ret.date) =>
                   calculate_probabilities(loc[1], loc[2], d) = ret.result
    /\ ret.op = "get_historical_trends" =>
           LET years == ret.result.years
               hot == ret.result.hot_probabilities
               wet == ret.result.wet_probabilities
           IN  /\ \A i \in 1..Len(years) :
                      tm_yday(strptime(SampleDate(years[i]))) =
                          IF years[i] \in {2016, 2020, 2024} THEN 197 ELSE 196
               /\ \A i, j \in 1..Len(years) :
                      IsLeap(years[i]) = IsLeap(years[j]) =>
                          (hot[i] = hot[j] /\ wet[i] = wet[j])
               /\ Cardinality(Values(hot)) <= 2
               /\ Cardinality(Values(wet)) <= 2
\* 2023-07-19 and 2024-07-18 are both day 200: the same non-zero result at
\* the two locations, and another one for a date of another day of year
C14_Witness ==
    /\ IsEstimate
    /\ ret.date = <<2023, 7, 19>>
    /\ Value("hot").tenths > 0
    /\ \A loc \in Locations :
           calculate_probabilities(loc[1], loc[2], <<2024, 7, 18>>) = ret.result
    /\ calculate_probabilities(ret.lat, ret.lng, <<2023, 12, 25>>) # ret.result

====
